---- MODULE Spec2Model ----
(***************************************************************************)
(* Reply-generation pipeline of the ReplyMate backend.                     *)
(*                                                                         *)
(* Two builds of routes/reply.js exist in the repository: the one that     *)
(* fetches eBay order data ("p000") and the earlier one that does not      *)
(* ("p001").  Both are modelled; the variable build says which one serves *)
(* the request.  The agent functions writerAgent and dataFetchAgent are    *)
(* modelled as operations of their own, since no route calls them.         *)
(*                                                                         *)
(* A buyer message is a set of phrases of a small vocabulary; a pattern of *)
(* the classifier is the set of vocabulary phrases its regular expression  *)
(* tests positive on.  A generated text is a sequence of words.            *)
(***************************************************************************)
EXTENDS Integers, Sequences, FiniteSets, TLC

\* ---------------------------------------------------------------- bounds
MaxPhrases == 2      \* phrases in one customer message
MaxDraftLen == 1     \* words in one backend-generated text
MaxTok == 1          \* prompt / completion tokens a backend reports
MaxItems == 1        \* line items of one fetched order
MaxTracking == 1     \* shipping fulfillments of one fetched order
MaxFragments == 2    \* fragments a draft handed to the safety filter is made of

\* ---------------------------------------------------------------- inputs
Vocabulary ==
  {"where is my package", "hasn't arrived", "thanks", "love it", "discount",
   "best price", "lawyer", "fraud", "refund", "money back", "cancel"}

Messages == {m \in SUBSET Vocabulary : Cardinality(m) <= MaxPhrases}

\* phrases the classifier alone is exercised on, besides those above
ClassifierVocabulary ==
  Vocabulary \cup {"hello", "return policy", "exchange", "whatsapp", "court", "scam"}

ClassifierInputs == {m \in SUBSET ClassifierVocabulary : Cardinality(m) <= MaxPhrases}

\* Texts are sequences of characters, one string per character; "rsquo"
\* stands for the one character U+2019.
DraftWords == {<<"t", "h", "a", "n", "k", "s">>,
               <<"c", "a", "l", "l", " ", "m", "e">>}

RECURSIVE Flatten(_)
Flatten(ws) == IF ws = << >> THEN << >> ELSE Head(ws) \o Flatten(Tail(ws))

\* the words of a text, each followed by a space but the last
RECURSIVE JoinWords(_)
JoinWords(ws) ==
  IF ws = << >> THEN << >>
  ELSE IF Tail(ws) = << >> THEN Head(ws)
  ELSE Head(ws) \o <<" ">> \o JoinWords(Tail(ws))

RECURSIVE SeqsUpTo(_, _)
SeqsUpTo(S, n) ==
  IF n = 0 THEN {<< >>}
  ELSE LET shorter == SeqsUpTo(S, n - 1)
       IN  shorter \cup {Append(s, w) : s \in {t \in shorter : Len(t) = n - 1}, w \in S}

BackendTexts == {JoinWords(ws) : ws \in SeqsUpTo(DraftWords, MaxDraftLen)}

UsageReports == [p : 0..MaxTok, c : 0..MaxTok]

Min(a, b) == IF a < b THEN a ELSE b

\* ------------------------------------------------------- JavaScript values
JsUndefined == [defined |-> FALSE, text |-> << >>]
Str(t) == [defined |-> TRUE, text |-> t]
Truthy(v) == v.defined /\ v.text # << >>

\* ------------------------------------------------------ classifier tables
patterns_p000 == <<
  [intent |-> "tracking", regs |-> <<
      {},    \* /track/i
      {"where is my package"},    \* /where.*(order|package|item)/i
      {},    \* /when.*(arrive|deliver|ship|get)/i
      {"hasn't arrived"},    \* /hasn.t (arrived|shipped)/i
      {}    \* /not received/i
    >>],
  [intent |-> "return", regs |-> <<
      {"return policy"},    \* /return/i
      {},    \* /send.*back/i
      {"return policy"},    \* /return (policy|label)/i
      {"exchange"}    \* /exchange/i
    >>],
  [intent |-> "refund", regs |-> <<
      {"refund"},    \* /refund/i
      {"money back"},    \* /money back/i
      {}    \* /reimburse/i
    >>],
  [intent |-> "damaged_item", regs |-> <<
      {},    \* /damaged/i
      {},    \* /broken/i
      {},    \* /cracked/i
      {},    \* /defective/i
      {},    \* /not working/i
      {},    \* /doesn.t work/i
      {}    \* /faulty/i
    >>],
  [intent |-> "shipping_inquiry", regs |-> <<
      {},    \* /shipping (cost|time|method)/i
      {},    \* /how long.*(ship|deliver)/i
      {}    \* /free shipping/i
    >>],
  [intent |-> "item_question", regs |-> <<
      {},    \* /compatible/i
      {},    \* /does (it|this) (work|fit)/i
      {},    \* /what.*(size|color|dimension)/i
      {}    \* /specs/i
    >>],
  [intent |-> "discount_request", regs |-> <<
      {"discount"},    \* /discount/i
      {},    \* /lower price/i
      {"best price"},    \* /best price/i
      {},    \* /deal/i
      {}    \* /offer/i
    >>],
  [intent |-> "cancellation", regs |-> <<
      {"cancel"},    \* /cancel/i
      {},    \* /don.t want/i
      {}    \* /changed my mind/i
    >>],
  [intent |-> "positive_feedback", regs |-> <<
      {"thanks"},    \* /thank/i
      {},    \* /great (seller|service)/i
      {"love it"},    \* /love it/i
      {},    \* /perfect/i
      {}    \* /excellent/i
    >>],
  [intent |-> "legal_threat", regs |-> <<
      {"lawyer"},    \* /lawyer/i
      {},    \* /legal action/i
      {},    \* /sue/i
      {"court"},    \* /court/i
      {}    \* /report you/i
    >>],
  [intent |-> "fraud_claim", regs |-> <<
      {"scam"},    \* /scam/i
      {"fraud"},    \* /fraud/i
      {},    \* /fake/i
      {}    \* /counterfeit/i
    >>],
  [intent |-> "off_platform", regs |-> <<
      {"whatsapp"},    \* /whatsapp/i
      {},    \* /call me/i
      {},    \* /text me/i
      {}    \* /outside.*ebay/i
    >>]
>>

patterns_p001 == <<
  [intent |-> "tracking", regs |-> <<
      {},    \* /track/i
      {"where is my package"},    \* /where.*(order|package|item|shipment)/i
      {},    \* /shipping status/i
      {},    \* /when.*(arrive|deliver|ship|get)/i
      {"hasn't arrived"},    \* /hasn.t (arrived|shipped)/i
      {},    \* /not received/i
      {}    \* /delivery date/i
    >>],
  [intent |-> "return", regs |-> <<
      {"return policy"},    \* /return/i
      {},    \* /send.*(back|it back)/i
      {},    \* /want.*refund/i
      {"return policy"},    \* /return (policy|label|request)/i
      {"exchange"}    \* /exchange/i
    >>],
  [intent |-> "refund", regs |-> <<
      {"refund"},    \* /refund/i
      {"money back"},    \* /money back/i
      {},    \* /charge.*back/i
      {},    \* /full refund/i
      {},    \* /partial refund/i
      {}    \* /reimburse/i
    >>],
  [intent |-> "damaged_item", regs |-> <<
      {},    \* /damaged/i
      {},    \* /broken/i
      {},    \* /cracked/i
      {},    \* /dent/i
      {},    \* /scratch/i
      {},    \* /defective/i
      {},    \* /not working/i
      {},    \* /doesn.t work/i
      {},    \* /faulty/i
      {}    \* /arrived broken/i
    >>],
  [intent |-> "shipping_inquiry", regs |-> <<
      {},    \* /shipping (cost|time|method|option)/i
      {},    \* /how long.*(ship|deliver)/i
      {},    \* /expedit/i
      {},    \* /express ship/i
      {},    \* /free shipping/i
      {}    \* /international ship/i
    >>],
  [intent |-> "item_question", regs |-> <<
      {},    \* /compatible/i
      {},    \* /does (it|this) (work|fit|come)/i
      {},    \* /what.*(size|color|dimension|weight|material)/i
      {},    \* /is (it|this) (new|genuine|authentic|original)/i
      {},    \* /specs/i
      {}    \* /specification/i
    >>],
  [intent |-> "discount_request", regs |-> <<
      {"discount"},    \* /discount/i
      {},    \* /lower price/i
      {"best price"},    \* /best price/i
      {},    \* /bulk/i
      {},    \* /deal/i
      {},    \* /coupon/i
      {},    \* /offer/i
      {}    \* /negotiate/i
    >>],
  [intent |-> "cancellation", regs |-> <<
      {"cancel"},    \* /cancel/i
      {},    \* /don.t want/i
      {},    \* /changed my mind/i
      {}    \* /stop.*order/i
    >>],
  [intent |-> "positive_feedback", regs |-> <<
      {"thanks"},    \* /thank/i
      {},    \* /great (seller|service|product|item)/i
      {"love it"},    \* /love (it|this)/i
      {},    \* /perfect/i
      {},    \* /excellent/i
      {},    \* /amazing/i
      {},    \* /happy with/i
      {},    \* /well packed/i
      {}    \* /fast ship/i
    >>],
  [intent |-> "legal_threat", regs |-> <<
      {"lawyer"},    \* /lawyer/i
      {},    \* /attorney/i
      {},    \* /legal action/i
      {},    \* /sue you/i
      {"court"},    \* /court/i
      {},    \* /trading standards/i
      {},    \* /consumer rights/i
      {},    \* /report you/i
      {},    \* /bbb/i
      {}    \* /complaint/i
    >>],
  [intent |-> "fraud_claim", regs |-> <<
      {"scam"},    \* /scam/i
      {"fraud"},    \* /fraud/i
      {},    \* /fake/i
      {},    \* /counterfeit/i
      {},    \* /not (genuine|authentic|real)/i
      {},    \* /knock.?off/i
      {}    \* /replica/i
    >>],
  [intent |-> "off_platform", regs |-> <<
      {"whatsapp"},    \* /whatsapp/i
      {},    \* /paypal.*direct/i
      {},    \* /call me/i
      {},    \* /text me/i
      {},    \* /email.*direct/i
      {},    \* /outside.*ebay/i
      {},    \* /off.*ebay/i
      {},    \* /my.*number/i
      {}    \* /phone/i
    >>]
>>

\* the table of agents/classifierAgent.js
patterns_agent == <<
  [intent |-> "tracking", regs |-> <<
      {},    \* /track/i
      {"where is my package"},    \* /where.*(order|package|item|shipment)/i
      {},    \* /not received/i
      {}    \* /delivery date/i
    >>],
  [intent |-> "return", regs |-> <<
      {"return policy"},    \* /return/i
      {},    \* /send.*back/i
      {"exchange"}    \* /exchange/i
    >>],
  [intent |-> "refund", regs |-> <<
      {"refund"},    \* /refund/i
      {"money back"},    \* /money back/i
      {}    \* /charge.?back/i
    >>],
  [intent |-> "damaged_item", regs |-> <<
      {},    \* /damaged/i
      {},    \* /broken/i
      {},    \* /cracked/i
      {},    \* /defective/i
      {}    \* /not working/i
    >>],
  [intent |-> "cancellation", regs |-> <<
      {"cancel"},    \* /cancel/i
      {}    \* /changed my mind/i
    >>],
  [intent |-> "legal_threat", regs |-> <<
      {"lawyer"},    \* /lawyer/i
      {},    \* /legal action/i
      {},    \* /sue/i
      {"court"},    \* /court/i
      {}    \* /report you/i
    >>],
  [intent |-> "fraud_claim", regs |-> <<
      {"scam"},    \* /scam/i
      {},    \* /fake/i
      {}    \* /counterfeit/i
    >>],
  [intent |-> "off_platform", regs |-> <<
      {"whatsapp"},    \* /whatsapp/i
      {},    \* /paypal.*direct/i
      {},    \* /email.*direct/i
      {}    \* /phone/i
    >>]
>>

Score(regs, m) == Cardinality({i \in 1..Len(regs) : regs[i] \cap m # {}})

\* if (s > score): a later intent replaces the best one only with more hits
Beats_OnTie(s, score) == s >= score

Beats(s, score) == s > score

RECURSIVE BestFrom(_, _, _, _, _)
BestFrom(patterns, m, i, best, score) ==
  IF i > Len(patterns) THEN [intent |-> best, score |-> score]
  ELSE LET s == Score(patterns[i].regs, m)
       IN  IF Beats(s, score) THEN BestFrom(patterns, m, i + 1, patterns[i].intent, s)
           ELSE BestFrom(patterns, m, i + 1, best, score)

HighRiskIntents_NoOffPlatform == {"legal_threat", "fraud_claim"}

HighRiskIntents == {"legal_threat", "fraud_claim", "off_platform"}
MediumRiskIntents == {"return", "refund", "damaged_item", "cancellation"}

RiskOf(intent) ==
  IF intent \in HighRiskIntents THEN "high"
  ELSE IF intent \in MediumRiskIntents THEN "medium" ELSE "low"

ConfidenceOf_NoCap(score) == score * 30 + 20

ConfidenceOf(score) == Min(score * 30 + 20, 95)

classifyIntent_FirstIntentDefault(patterns, m) ==
  LET b == BestFrom(patterns, m, 1, patterns[1].intent, 0)
  IN  [intent |-> b.intent,
       confidence |-> ConfidenceOf(b.score),
       risk |-> RiskOf(b.intent)]

classifyIntent(patterns, m) ==
  LET b == BestFrom(patterns, m, 1, "general", 0)
  IN  [intent |-> b.intent,
       confidence |-> ConfidenceOf(b.score),
       risk |-> RiskOf(b.intent)]

\* Intents for which classifierAgent sets needs.order
OrderIntents_TrackingOnly == {"tracking"}

OrderIntents == {"tracking", "refund", "return", "damaged_item", "cancellation"}

\* ---------------------------------------------------------- rule templates
TemplateIntents(b) ==
  IF b = "p000"
  THEN {"tracking", "positive_feedback", "shipping_inquiry", "off_platform"}
  ELSE {"tracking", "positive_feedback", "shipping_inquiry", "item_question",
        "off_platform"}

\* getRuleReply: the template of the intent signed with the seller's name,
\* or null when the intent has no template.
getRuleReply(b, intent) ==
  IF intent \in TemplateIntents(b)
  THEN Str(<<"template", intent, "signature">>)
  ELSE JsUndefined

\* ------------------------------------------------------------ safety filter
\* String.prototype.trim, " " being the whitespace character of the texts
RECURSIVE TrimLeft(_)
TrimLeft(t) == IF t # << >> /\ Head(t) = " " THEN TrimLeft(Tail(t)) ELSE t

RECURSIVE TrimRight(_)
TrimRight(t) ==
  IF t # << >> /\ t[Len(t)] = " " THEN TrimRight(SubSeq(t, 1, Len(t) - 1)) ELSE t

Trim(t) == TrimRight(TrimLeft(t))

\* toLowerCase of one character, for the i flag of the patterns
UpperCase == {"A", "B", "C", "D", "E", "F", "G", "H", "I", "J", "K", "L", "M",
              "N", "O", "P", "Q", "R", "S", "T", "U", "V", "W", "X", "Y", "Z"}
LowerOf ==
  ("A" :> "a") @@ ("B" :> "b") @@ ("C" :> "c") @@ ("D" :> "d") @@ ("E" :> "e") @@
  ("F" :> "f") @@ ("G" :> "g") @@ ("H" :> "h") @@ ("I" :> "i") @@ ("J" :> "j") @@
  ("K" :> "k") @@ ("L" :> "l") @@ ("M" :> "m") @@ ("N" :> "n") @@ ("O" :> "o") @@
  ("P" :> "p") @@ ("Q" :> "q") @@ ("R" :> "r") @@ ("S" :> "s") @@ ("T" :> "t") @@
  ("U" :> "u") @@ ("V" :> "v") @@ ("W" :> "w") @@ ("X" :> "x") @@ ("Y" :> "y") @@
  ("Z" :> "z")
Lower(c) == IF c \in UpperCase THEN LowerOf[c] ELSE c

\* \w of a regular expression without the u flag
WordChars ==
  UpperCase \cup {LowerOf[c] : c \in UpperCase}
  \cup {"0", "1", "2", "3", "4", "5", "6", "7", "8", "9", "_"}

\* the alternatives of each pattern, in the order the pattern lists them
OffPlatformWords ==
  <<<<"w", "h", "a", "t", "s", "a", "p", "p">>,
   <<"t", "e", "l", "e", "g", "r", "a", "m">>,
   <<"p", "a", "y", "p", "a", "l">>,
   <<"e", "m", "a", "i", "l", " ", "m", "e">>,
   <<"c", "a", "l", "l", " ", "m", "e">>,
   <<"t", "e", "x", "t", " ", "m", "e">>>>
FaultWords ==
  <<<<"i", "t", "'", "s", " ", "o", "u", "r", " ", "f", "a", "u", "l", "t">>,
   <<"i", "t", "s", " ", "o", "u", "r", " ", "f", "a", "u", "l", "t">>,
   <<"w", "e", " ", "m", "e", "s", "s", "e", "d", " ", "u", "p">>,
   <<"o", "u", "r", " ", "m", "i", "s", "t", "a", "k", "e">>>>
GuaranteeWords ==
  <<<<"g", "u", "a", "r", "a", "n", "t", "e", "e">>,
   <<"d", "e", "f", "i", "n", "i", "t", "e", "l", "y">>,
   <<"1", "0", "0", "%", " ", "s", "u", "r", "e">>>>

OffPlatformRule ==
  [alts |-> OffPlatformWords, bounded |-> FALSE,
   repl |-> <<"e", "B", "a", "y", " ", "m", "e", "s", "s", "a", "g", "e", "s">>]
FaultRule ==
  [alts |-> FaultWords, bounded |-> TRUE,
   repl |-> <<"I", "rsquo", "m", " ", "s", "o", "r", "r", "y", " ", "f", "o", "r", " ", "t", "h", "e", " ", "i", "n", "c", "o", "n", "v", "e", "n", "i", "e", "n", "c", "e">>]
GuaranteeRule ==
  [alts |-> GuaranteeWords, bounded |-> TRUE,
   repl |-> <<"w", "i", "l", "l", " ", "d", "o", " ", "o", "u", "r", " ", "b", "e", "s", "t", " ", "t", "o">>]

IsWordAt(text, i) == i >= 1 /\ i <= Len(text) /\ text[i] \in WordChars

\* \b between the characters i - 1 and i
BoundaryAt(text, i) == IsWordAt(text, i - 1) # IsWordAt(text, i)

\* whether alternative w matches at position i, case-insensitively
MatchesAt(text, i, w, bounded) ==
  /\ i + Len(w) - 1 <= Len(text)
  /\ \A k \in 1..Len(w) : Lower(text[i + k - 1]) = w[k]
  /\ bounded => BoundaryAt(text, i) /\ BoundaryAt(text, i + Len(w))

\* text.replace(/.../gi, repl): leftmost matches, not overlapping, the
\* scan resuming after each match
RECURSIVE ReplaceFrom(_, _, _)
ReplaceFrom(text, i, rule) ==
  IF i > Len(text) THEN << >>
  ELSE LET hits == {a \in 1..Len(rule.alts) : MatchesAt(text, i, rule.alts[a], rule.bounded)}
       IN  IF hits = {} THEN <<text[i]>> \o ReplaceFrom(text, i + 1, rule)
           ELSE LET a == CHOOSE x \in hits : \A y \in hits : x <= y
                IN  rule.repl \o ReplaceFrom(text, i + Len(rule.alts[a]), rule)

ReplaceAll(text, rule) == ReplaceFrom(text, 1, rule)

safetyCheckAgent(draft) ==
  ReplaceAll(ReplaceAll(ReplaceAll(Trim(draft), OffPlatformRule), FaultRule), GuaranteeRule)

\* ------------------------------------------------------------------ pricing
\* cost in micro-dollars, rounded as toFixed(6) does; prices per token are in
\* units of 1e-8 dollars
Round6(x) == (x + 50) \div 100
OpenAICost(u) == Round6(u.p * 15 + u.c * 60)
AnthropicCost(u) == Round6(u.p * 80 + u.c * 400)

\* -------------------------------------------------------------------- state
VARIABLES
  build,        \* which routes/reply.js serves: "p000" (eBay data) or "p001"
  op,           \* operation in progress: generate, modify, writerAgent, dataFetchAgent
  pc,           \* position of the operation
  req,          \* the request body / the call's arguments
  intent, confidence, risk,      \* result of classifyIntent (riskLevel for writerAgent)
  ebayData,     \* order data fetched by the p000 route
  reply, model, tokens, cost, route,   \* the route handler's locals
  issued,       \* backends called so far, in call order
  inflight,     \* backends whose call has not completed yet
  attempts,     \* tiers tried so far with what each gave
  ex,           \* the usage row read by the handler
  usage,        \* today's usage row of the account, as stored
  reply_log,    \* reply_log rows inserted
  last_active,  \* whether users.last_active was updated
  out,          \* what dataFetchAgent returns
  response,     \* the response sent (or the value returned by an agent)
  logged,       \* backend error messages written by console.error
  acct,         \* accounting state of each concurrent generate request
  closed,       \* whether the caller has disconnected (or its deadline elapsed)
  fetched,      \* dataFetchAgent's normalized order and tracking facts
  advice,       \* riskAgent's constraints and profitProtectionAgent's guidance
  bundle,       \* what reasoningAgent returns
  prompt,       \* the user prompt writerAgent builds
  ret           \* what getValidEbayTokenByLicenseKey returns

classVars == <<intent, confidence, risk>>
tierVars == <<reply, model, tokens, cost, route>>
callVars == <<issued, inflight, attempts>>
sinkVars == <<ex, usage, reply_log, last_active>>
agentVars == <<fetched, advice, bundle, prompt, ret>>
vars == <<build, op, pc, req, intent, confidence, risk, ebayData, reply, model,
          tokens, cost, route, issued, inflight, attempts, ex, usage,
          reply_log, last_active, out, response, logged, acct, closed,
          fetched, advice, bundle, prompt, ret>>

Builds == {"p000", "p001"}

patterns(b) == IF b = "p000" THEN patterns_p000 ELSE patterns_p001

NoRow ==
  [exists |-> FALSE, replies_count |-> 0, rule_count |-> 0, mini_count |-> 0,
   large_count |-> 0, tokens_used |-> 0, cost_usd |-> 0]

NoReq ==
  [present |-> FALSE, long |-> FALSE, phrases |-> {},
   modify_instructions |-> FALSE, order_ref |-> FALSE,
   original_reply |-> FALSE, instructions |-> FALSE,
   needs_order |-> FALSE, orderId |-> FALSE, classifier |-> "", draft |-> << >>,
   expired |-> FALSE, refresh_token |-> FALSE, usage_before |-> NoRow]

NoData == [present |-> FALSE, tracking |-> FALSE]

\* a usage row left by one earlier rule-tier reply of the same day
EarlierRow ==
  [exists |-> TRUE, replies_count |-> 1, rule_count |-> 1, mini_count |-> 0,
   large_count |-> 0, tokens_used |-> 0, cost_usd |-> 0]

NoOut == [ok |-> TRUE, fetched |-> {}, missing |-> {}]

\* out.fetched = {}: neither an order nor tracking entries
NoOrder == [present |-> FALSE, orderId |-> JsUndefined, status |-> JsUndefined, items |-> << >>]
NoFetched == [order |-> NoOrder, tracking |-> << >>]
NoAdvice == [constraints |-> << >>, guidance |-> << >>]
NoBundle == [facts |-> << >>, questions |-> << >>, constraints |-> << >>]
NoPrompt == [facts |-> << >>, constraints |-> << >>, missing |-> << >>]
NoRet == [connected |-> FALSE, reason |-> "", accessToken |-> ""]

NoAgents ==
  /\ fetched = NoFetched /\ advice = NoAdvice /\ bundle = NoBundle
  /\ prompt = NoPrompt /\ ret = NoRet

NoResponse == [status |-> "none", error |-> "", reply |-> JsUndefined, route |-> ""]
ErrorResponse(status, error) ==
  [status |-> status, error |-> error, reply |-> JsUndefined, route |-> ""]
SuccessResponse(r, rt) == [status |-> "200", error |-> "", reply |-> r, route |-> rt]

\* outcomes of one awaited database call: it resolves with data, resolves
\* with an error object, or the awaited promise rejects
DbOutcomes == {"ok", "error", "reject"}

\* ---------------------------------------------------------------- bounds
NumProcs == 2        \* generate requests of one account running concurrently

Procs == 1..NumProcs

\* accounting state of a concurrent request that has not started
NoAcct ==
  [pc |-> "idle", route |-> "", tokens |-> 0, cost |-> 0, ex |-> NoRow,
   status |-> "none"]

\* message texts of the errors a generation backend can answer with
BackendErrors == {"Rate limit reached", "Incorrect API key provided"}

\* nothing received yet: no classification, no locals, nothing sent
Idle ==
  /\ op = "none"
  /\ pc = "idle"
  /\ req = NoReq
  /\ intent = "" /\ confidence = 0 /\ risk = ""
  /\ ebayData = NoData
  /\ reply = JsUndefined /\ model = "" /\ tokens = 0 /\ cost = 0 /\ route = ""
  /\ issued = << >> /\ inflight = {} /\ attempts = << >>
  /\ ex = NoRow
  /\ reply_log = << >>
  /\ last_active = FALSE
  /\ out = NoOut
  /\ response = NoResponse
  /\ logged = << >>
  /\ acct = [p \in Procs |-> NoAcct]
  /\ closed = FALSE
  /\ NoAgents

Init ==
  /\ build \in Builds
  /\ usage \in {NoRow, EarlierRow}
  /\ Idle

\* ------------------------------------------------------ POST /reply/generate
\* Body validation and classification, up to the first await (tone samples).
\* !customer_message || customer_message.trim().length < 3
InvalidMessage_NoLengthCheck(present, long) == ~present

InvalidMessage(present, long) == ~present \/ ~long

GenReceive ==
  /\ pc = "idle"
  /\ \E present \in BOOLEAN, long \in BOOLEAN, m \in Messages,
        mi \in BOOLEAN, oref \in BOOLEAN :
       /\ long => present
       /\ ~long => m = {}
       /\ req' = [NoReq EXCEPT !.present = present, !.long = long, !.phrases = m,
                               !.modify_instructions = mi, !.order_ref = oref]
       /\ IF InvalidMessage(present, long)
          THEN /\ response' = ErrorResponse("400", "Customer message is required")
               /\ pc' = "done"
               /\ UNCHANGED classVars
          ELSE /\ LET c == classifyIntent(patterns(build), m)
                  IN  /\ intent' = c.intent
                      /\ confidence' = c.confidence
                      /\ risk' = c.risk
               /\ pc' = "await_tones"
               /\ UNCHANGED response
  /\ op' = "generate"
  /\ UNCHANGED <<build, closed, agentVars, logged, acct, ebayData, tierVars, callVars, sinkVars, out>>

\* the outer catch of the handler
CatchMessage(b) ==
  IF b = "p000" THEN "Failed to generate reply."
  ELSE "Failed to generate reply. Please try again."

GenCatch ==
  /\ response' = ErrorResponse("500", CatchMessage(build))
  /\ pc' = "done"

FetchesOrderData(b) == b = "p000" /\ req.order_ref

GenTones ==
  /\ op = "generate" /\ pc = "await_tones"
  /\ \E o \in {"ok", "reject"} :
       IF o = "reject" THEN GenCatch
       ELSE /\ pc' = IF FetchesOrderData(build) THEN "await_account" ELSE "route"
            /\ UNCHANGED response
  /\ UNCHANGED <<build, closed, agentVars, logged, acct, op, req, classVars, ebayData, tierVars, callVars, sinkVars, out>>

\* select of the primary ebay_accounts row; a usable token leads to the
\* orders fetch, anything else (no row, expired token, exception) to no data
GenEbayAccount ==
  /\ op = "generate" /\ pc = "await_account"
  /\ \E o \in {"token", "no_token", "reject"} :
       pc' = IF o = "token" THEN "await_orders" ELSE "route"
  /\ UNCHANGED <<build, closed, agentVars, logged, acct, op, req, classVars, ebayData, tierVars, callVars, sinkVars,
                 out, response>>

GenEbayOrders ==
  /\ op = "generate" /\ pc = "await_orders"
  /\ \E o \in {"found", "empty", "reject"} :
       IF o = "found"
       THEN /\ ebayData' = [present |-> TRUE, tracking |-> FALSE]
            /\ pc' = "await_tracking"
       ELSE /\ pc' = "route"
            /\ UNCHANGED ebayData
  /\ UNCHANGED <<build, closed, agentVars, logged, acct, op, req, classVars, tierVars, callVars, sinkVars, out, response>>

GenEbayTracking ==
  /\ op = "generate" /\ pc = "await_tracking"
  /\ \E o \in {"tracking", "none", "reject"} :
       ebayData' = [ebayData EXCEPT !.tracking = (o = "tracking")]
  /\ pc' = "route"
  /\ UNCHANGED <<build, closed, agentVars, logged, acct, op, req, classVars, tierVars, callVars, sinkVars, out, response>>

\* -- the tier chain: rule -> mini -> large
RuleEligible ==
  /\ confidence >= 80
  /\ risk = "low"
  /\ ~req.modify_instructions
  /\ (build = "p000" => ~ebayData.present)

LowTierApplicable_NoRiskCheck == ~Truthy(reply)
LowTierApplicable == ~Truthy(reply) /\ risk # "high"

HighTierApplicable_Always == TRUE
HighTierApplicable == ~Truthy(reply)

HighTierReached_NoAwait == pc \in {"high", "await_openai"}
HighTierReached == pc = "high"

AfterLowFailure_Refetch == "await_orders"
AfterLowFailure_Retry == "low"
AfterLowFailure == "high"

\* the body sent when the last tier has failed too; e is the message of the
\* backend's error, which is only logged
\* what console.error writes before the backend's message
OpenAILog(b) ==
  IF b = "p000" THEN "OpenAI failed: " ELSE "OpenAI failed, falling back to Anthropic: "

AnthropicLog(b) ==
  IF b = "p000" THEN "Anthropic failed: " ELSE "Anthropic also failed: "

ExhaustedMessage_Leaks(b, e) == "AI service unavailable: " \o e
ExhaustedMessage(b, e) ==
  IF b = "p000" THEN "AI service unavailable. Please try again."
  ELSE "AI service unavailable. Please try again in a moment."

Attempt(tier, result) == [tier |-> tier, result |-> result]
ResultOf(text) == IF text = << >> THEN "empty" ELSE "reply"

\* tokens = 0; cost = 0 of the rule tier
RuleAccounting_Charged == [tokens |-> 1, cost |-> 0]

RuleAccounting == [tokens |-> 0, cost |-> 0]

GenRuleTier ==
  /\ op = "generate" /\ pc = "route"
  /\ IF RuleEligible
     THEN LET rr == getRuleReply(build, intent)
          IN  IF Truthy(rr)
              THEN /\ reply' = rr
                   /\ model' = IF build = "p000" THEN "rule" ELSE "rule-based"
                   /\ tokens' = RuleAccounting.tokens /\ cost' = RuleAccounting.cost
                   /\ route' = "rule"
                   /\ attempts' = Append(attempts, Attempt("rule", "reply"))
              ELSE /\ attempts' = Append(attempts, Attempt("rule", "no_template"))
                   /\ UNCHANGED tierVars
     ELSE UNCHANGED <<tierVars, attempts>>
  /\ pc' = "low"
  /\ UNCHANGED <<build, closed, agentVars, logged, acct, op, req, classVars, ebayData, issued, inflight, sinkVars,
                 out, response>>

GenLowIssue ==
  /\ op = "generate" /\ pc = "low"
  /\ LowTierApplicable
  /\ issued' = Append(issued, "openai")
  /\ inflight' = inflight \cup {"openai"}
  /\ pc' = "await_openai"
  /\ UNCHANGED <<build, closed, agentVars, logged, acct, op, req, classVars, ebayData, tierVars, attempts, sinkVars,
                 out, response>>

GenLowSkip ==
  /\ op = "generate" /\ pc = "low"
  /\ ~LowTierApplicable
  /\ pc' = "high"
  /\ UNCHANGED <<build, closed, agentVars, logged, acct, op, req, classVars, ebayData, tierVars, callVars, sinkVars,
                 out, response>>

\* callOpenAI returns {reply, model, tokens, cost} or throws
GenLowDone ==
  /\ op = "generate" /\ pc = "await_openai"
  /\ "openai" \in inflight
  /\ inflight' = inflight \ {"openai"}
  /\ \/ /\ attempts' = Append(attempts, Attempt("openai", "error"))
        /\ \E e \in BackendErrors : logged' = Append(logged, OpenAILog(build) \o e)
        /\ pc' = AfterLowFailure
        /\ UNCHANGED tierVars
     \/ \E t \in BackendTexts, u \in UsageReports :
          /\ reply' = Str(t)
          /\ model' = "gpt-4o-mini"
          /\ tokens' = u.p + u.c
          /\ cost' = OpenAICost(u)
          /\ route' = "mini"
          /\ attempts' = Append(attempts, Attempt("openai", ResultOf(t)))
          /\ pc' = "high"
          /\ UNCHANGED logged
  /\ UNCHANGED <<build, closed, agentVars, acct, op, req, classVars, ebayData, issued, sinkVars, out, response>>

GenHighIssue ==
  /\ op = "generate" /\ HighTierReached
  /\ HighTierApplicable
  /\ issued' = Append(issued, "anthropic")
  /\ inflight' = inflight \cup {"anthropic"}
  /\ pc' = "await_anthropic"
  /\ UNCHANGED <<build, closed, agentVars, logged, acct, op, req, classVars, ebayData, tierVars, attempts, sinkVars,
                 out, response>>

GenHighSkip ==
  /\ op = "generate" /\ pc = "high"
  /\ ~HighTierApplicable
  /\ pc' = "usage_select"
  /\ UNCHANGED <<build, closed, agentVars, logged, acct, op, req, classVars, ebayData, tierVars, callVars, sinkVars,
                 out, response>>

\* callAnthropic returns {reply, model, tokens, cost}; when it throws the
\* handler answers 500 from the inner catch
GenHighDone ==
  /\ op = "generate" /\ pc = "await_anthropic"
  /\ "anthropic" \in inflight
  /\ inflight' = inflight \ {"anthropic"}
  /\ \/ /\ attempts' = Append(attempts, Attempt("anthropic", "error"))
        /\ \E e \in BackendErrors :
             /\ logged' = Append(logged, AnthropicLog(build) \o e)
             /\ response' = ErrorResponse("500", ExhaustedMessage(build, e))
        /\ pc' = "done"
        /\ UNCHANGED tierVars
     \/ \E t \in BackendTexts, u \in UsageReports :
          /\ reply' = Str(t)
          /\ model' = "claude-haiku-4-5-20241022"
          /\ tokens' = u.p + u.c
          /\ cost' = AnthropicCost(u)
          /\ route' = "large"
          /\ attempts' = Append(attempts, Attempt("anthropic", ResultOf(t)))
          /\ pc' = "usage_select"
          /\ UNCHANGED <<response, logged>>
  /\ UNCHANGED <<build, closed, agentVars, acct, op, req, classVars, ebayData, issued, sinkVars, out>>

\* -- usage accounting, awaited before the response is sent
RouteCount(r, which) == IF r = which THEN 1 ELSE 0

GenUsageSelect ==
  /\ op = "generate" /\ pc = "usage_select"
  /\ \E o \in DbOutcomes :
       IF o = "reject" THEN GenCatch /\ UNCHANGED ex
       ELSE /\ ex' = IF o = "ok" THEN usage ELSE NoRow
            /\ pc' = "usage_write"
            /\ UNCHANGED response
  /\ UNCHANGED <<build, closed, agentVars, logged, acct, op, req, classVars, ebayData, tierVars, callVars, usage,
                 reply_log, last_active, out>>

\* the row written by the update: the values read, plus this reply
UpdatedRowOf(e, rt, tok, c) ==
  [exists |-> TRUE,
   replies_count |-> e.replies_count + 1,
   rule_count |-> e.rule_count + RouteCount(rt, "rule"),
   mini_count |-> e.mini_count + RouteCount(rt, "mini"),
   large_count |-> e.large_count + RouteCount(rt, "large"),
   tokens_used |-> e.tokens_used + tok,
   cost_usd |-> e.cost_usd + c]

InsertedRowOf(rt, tok, c) ==
  [exists |-> TRUE,
   replies_count |-> 1,
   rule_count |-> RouteCount(rt, "rule"),
   mini_count |-> RouteCount(rt, "mini"),
   large_count |-> RouteCount(rt, "large"),
   tokens_used |-> tok,
   cost_usd |-> c]

UpdatedRow == UpdatedRowOf(ex, route, tokens, cost)

InsertedRow == InsertedRowOf(route, tokens, cost)

\* update of the row read, or insert of a new one; an insert next to an
\* existing (user_id, date) row violates the unique constraint
GenUsageWrite ==
  /\ op = "generate" /\ pc = "usage_write"
  /\ \E o \in DbOutcomes :
       IF o = "reject" THEN GenCatch /\ UNCHANGED usage
       ELSE /\ usage' = IF o = "error" THEN usage
                        ELSE IF ex.exists THEN UpdatedRow
                        ELSE IF usage.exists THEN usage
                        ELSE InsertedRow
            /\ pc' = "reply_log"
            /\ UNCHANGED response
  /\ UNCHANGED <<build, closed, agentVars, logged, acct, op, req, classVars, ebayData, tierVars, callVars, ex,
                 reply_log, last_active, out>>

GenReplyLog ==
  /\ op = "generate" /\ pc = "reply_log"
  /\ \E o \in DbOutcomes :
       IF o = "reject" THEN GenCatch /\ UNCHANGED reply_log
       ELSE /\ reply_log' = IF o = "ok"
                            THEN Append(reply_log,
                                        [intent |-> intent, route |-> route,
                                         model |-> model, tokens_used |-> tokens,
                                         cost_usd |-> cost])
                            ELSE reply_log
            /\ pc' = "last_active"
            /\ UNCHANGED response
  /\ UNCHANGED <<build, closed, agentVars, logged, acct, op, req, classVars, ebayData, tierVars, callVars, ex, usage,
                 last_active, out>>

\* update of users.last_active, then res.json with the reply
GenRespond ==
  /\ op = "generate" /\ pc = "last_active"
  /\ \E o \in DbOutcomes :
       IF o = "reject" THEN GenCatch /\ UNCHANGED last_active
       ELSE /\ last_active' = (o = "ok")
            /\ response' = SuccessResponse(reply, route)
            /\ pc' = "done"
  /\ UNCHANGED <<build, closed, agentVars, logged, acct, op, req, classVars, ebayData, tierVars, callVars, ex, usage,
                 reply_log, out>>

\* ------------------------------------------------------- POST /reply/modify
MissingFieldsMessage(b) ==
  IF b = "p000" THEN "Missing fields"
  ELSE "Original reply and instructions are required"

ModReceive ==
  /\ pc = "idle"
  /\ \E orig \in BOOLEAN, ins \in BOOLEAN :
       /\ req' = [NoReq EXCEPT !.original_reply = orig, !.instructions = ins]
       /\ IF ~orig \/ ~ins
          THEN /\ response' = ErrorResponse("400", MissingFieldsMessage(build))
               /\ pc' = "done"
               /\ UNCHANGED <<issued, inflight>>
          ELSE /\ issued' = Append(issued, "openai")
               /\ inflight' = inflight \cup {"openai"}
               /\ pc' = "await_openai"
               /\ UNCHANGED response
  /\ op' = "modify"
  /\ UNCHANGED <<build, closed, agentVars, logged, acct, classVars, ebayData, tierVars, attempts, sinkVars, out>>

ModifyFallback_Retry == "openai"

ModifyFallback == "anthropic"

ModLowDone ==
  /\ op = "modify" /\ pc = "await_openai"
  /\ "openai" \in inflight
  /\ \/ /\ attempts' = Append(attempts, Attempt("openai", "error"))
        /\ issued' = Append(issued, ModifyFallback)
        /\ inflight' = (inflight \ {"openai"}) \cup {ModifyFallback}
        /\ pc' = "await_" \o ModifyFallback
        /\ UNCHANGED <<reply, response>>
     \/ \E t \in BackendTexts :
          /\ attempts' = Append(attempts, Attempt("openai", ResultOf(t)))
          /\ inflight' = inflight \ {"openai"}
          /\ reply' = Str(t)
          /\ response' = SuccessResponse(Str(t), "modify")
          /\ pc' = "done"
          /\ UNCHANGED issued
  /\ UNCHANGED <<build, closed, agentVars, logged, acct, op, req, classVars, ebayData, model, tokens, cost, route,
                 sinkVars, out>>

\* When callAnthropic throws too: p001 answers 500 from its catch; p000 has
\* no catch, the handler's promise rejects and either nothing is ever sent
\* or the framework's error handler answers.
ModHighDone ==
  /\ op = "modify" /\ pc = "await_anthropic"
  /\ "anthropic" \in inflight
  /\ inflight' = inflight \ {"anthropic"}
  /\ \/ /\ attempts' = Append(attempts, Attempt("anthropic", "error"))
        /\ \/ /\ build = "p001"
              /\ response' = ErrorResponse("500", "Failed to modify reply. Please try again.")
           \/ /\ build = "p000"
              /\ response' \in {NoResponse, ErrorResponse("500", "Internal server error")}
        /\ UNCHANGED reply
     \/ \E t \in BackendTexts :
          /\ attempts' = Append(attempts, Attempt("anthropic", ResultOf(t)))
          /\ reply' = Str(t)
          /\ response' = SuccessResponse(Str(t), "modify")
  /\ pc' = "done"
  /\ UNCHANGED <<build, closed, agentVars, logged, acct, op, req, classVars, ebayData, model, tokens, cost, route,
                 issued, sinkVars, out>>

\* ------------------------------------------------------------- writerAgent
RiskLevels == {"low", "medium", "high"}

WriterFirstBackend(riskLevel) == IF riskLevel = "high" THEN "anthropic" ELSE "openai"

WaCall ==
  /\ pc = "idle"
  /\ \E riskLevel \in RiskLevels :
       /\ risk' = riskLevel
       /\ issued' = Append(issued, WriterFirstBackend(riskLevel))
       /\ inflight' = inflight \cup {WriterFirstBackend(riskLevel)}
       /\ pc' = "await_" \o WriterFirstBackend(riskLevel)
  /\ op' = "writerAgent"
  /\ UNCHANGED <<build, closed, agentVars, logged, acct, req, intent, confidence, ebayData, tierVars, attempts,
                 sinkVars, out, response>>

WaLowDone ==
  /\ op = "writerAgent" /\ pc = "await_openai"
  /\ "openai" \in inflight
  /\ \/ /\ attempts' = Append(attempts, Attempt("openai", "error"))
        /\ issued' = Append(issued, "anthropic")
        /\ inflight' = (inflight \ {"openai"}) \cup {"anthropic"}
        /\ pc' = "await_anthropic"
        /\ UNCHANGED <<tierVars, response>>
     \/ \E t \in BackendTexts, u \in UsageReports :
          /\ attempts' = Append(attempts, Attempt("openai", ResultOf(t)))
          /\ inflight' = inflight \ {"openai"}
          /\ reply' = Str(t)
          /\ model' = "gpt-4o-mini"
          /\ tokens' = u.p + u.c
          /\ cost' = OpenAICost(u)
          /\ response' = [NoResponse EXCEPT !.status = "returned", !.reply = Str(t)]
          /\ pc' = "done"
          /\ UNCHANGED <<route, issued>>
  /\ UNCHANGED <<build, closed, agentVars, logged, acct, op, req, classVars, ebayData, sinkVars, out>>

WaHighDone ==
  /\ op = "writerAgent" /\ pc = "await_anthropic"
  /\ "anthropic" \in inflight
  /\ inflight' = inflight \ {"anthropic"}
  /\ \/ /\ attempts' = Append(attempts, Attempt("anthropic", "error"))
        /\ response' = [NoResponse EXCEPT !.status = "threw"]
        /\ UNCHANGED tierVars
     \/ \E t \in BackendTexts, u \in UsageReports :
          /\ attempts' = Append(attempts, Attempt("anthropic", ResultOf(t)))
          /\ reply' = Str(t)
          /\ model' = "claude-3-5-haiku-20241022"
          /\ tokens' = u.p + u.c
          /\ cost' = AnthropicCost(u)
          /\ response' = [NoResponse EXCEPT !.status = "returned", !.reply = Str(t)]
          /\ UNCHANGED route
  /\ pc' = "done"
  /\ UNCHANGED <<build, closed, agentVars, logged, acct, op, req, classVars, ebayData, issued, sinkVars, out>>

\* ---------------------------------------------------------- dataFetchAgent
Returned == [NoResponse EXCEPT !.status = "returned"]
Threw == [NoResponse EXCEPT !.status = "threw"]

DfCall ==
  /\ pc = "idle"
  /\ \E needs_order \in BOOLEAN, orderId \in BOOLEAN :
       /\ req' = [NoReq EXCEPT !.needs_order = needs_order, !.orderId = orderId]
       /\ IF ~needs_order
          THEN /\ out' = NoOut
               /\ response' = Returned
               /\ pc' = "done"
          ELSE IF ~orderId
          THEN /\ out' = [NoOut EXCEPT !.ok = FALSE, !.missing = {"order_id"}]
               /\ response' = Returned
               /\ pc' = "done"
          ELSE /\ pc' = "await_token"
               /\ UNCHANGED <<out, response>>
  /\ op' = "dataFetchAgent"
  /\ UNCHANGED <<build, closed, agentVars, logged, acct, classVars, ebayData, tierVars, callVars, sinkVars>>

\* getEbayToken: a token, null (no account, no refresh token, refresh refused),
\* or an exception of the token endpoint's fetch, which nothing catches
DfToken ==
  /\ op = "dataFetchAgent" /\ pc = "await_token"
  /\ \E o \in {"token", "null", "reject"} :
       \/ /\ o = "token"
          /\ pc' = "await_order"
          /\ UNCHANGED <<out, response>>
       \/ /\ o = "null"
          /\ out' = [out EXCEPT !.ok = FALSE, !.missing = {"ebay_oauth"}]
          /\ response' = Returned
          /\ pc' = "done"
       \/ /\ o = "reject"
          /\ response' = Threw
          /\ pc' = "done"
          /\ UNCHANGED out
  /\ UNCHANGED <<build, closed, agentVars, logged, acct, op, req, classVars, ebayData, tierVars, callVars, sinkVars>>

\* fetchOrderAndTracking, the order fetch: not wrapped in a try
DfOrder ==
  /\ op = "dataFetchAgent" /\ pc = "await_order"
  /\ \E o \in {"ok", "not_ok", "reject"} :
       \/ /\ o = "ok"
          /\ pc' = "await_fulfillment"
          /\ UNCHANGED <<out, response>>
       \/ /\ o = "not_ok"
          /\ out' = [out EXCEPT !.ok = FALSE, !.fetched = {"error"}]
          /\ response' = Returned
          /\ pc' = "done"
       \/ /\ o = "reject"
          /\ response' = Threw
          /\ pc' = "done"
          /\ UNCHANGED out
  /\ UNCHANGED <<build, closed, agentVars, logged, acct, op, req, classVars, ebayData, tierVars, callVars, sinkVars>>

\* fetchOrderAndTracking, the tracking fetch: wrapped in try {} catch {}
DfTracking ==
  /\ op = "dataFetchAgent" /\ pc = "await_fulfillment"
  /\ \E o \in {"ok", "not_ok", "reject"} :
       out' = [out EXCEPT !.fetched = {"order", "tracking"}]
  /\ response' = Returned
  /\ pc' = "done"
  /\ UNCHANGED <<build, closed, agentVars, logged, acct, op, req, classVars, ebayData, tierVars, callVars, sinkVars>>

\* ------------------------------------------ getValidEbayTokenByLicenseKey
NotConnected(reason) == [NoRet EXCEPT !.reason = reason]
Connected(token) == [NoRet EXCEPT !.connected = TRUE, !.accessToken = token]

\* the helper returns a value / an exception leaves the helper
TkReturn(r) == ret' = r /\ response' = Returned /\ pc' = "done"
TkThrow(msg) ==
  response' = [Threw EXCEPT !.error = msg] /\ pc' = "done" /\ UNCHANGED ret

TkGoto(l) == pc' = l /\ UNCHANGED <<ret, response>>

\* statuses a failed verification request can carry
VerifyStatuses == {"401", "403", "500"}

TkCall ==
  /\ pc = "idle"
  /\ op' = "ebayToken"
  /\ pc' = "await_user"
  /\ UNCHANGED <<build, closed, agentVars, logged, acct, req, classVars, ebayData, tierVars,
                 callVars, sinkVars, out, response>>

\* 1) the users row of the license key
TkUser ==
  /\ op = "ebayToken" /\ pc = "await_user"
  /\ \E o \in {"found", "none", "reject"} :
       \/ o = "found" /\ TkGoto("await_account")
       \/ o = "none" /\ TkReturn(NotConnected("invalid_license"))
       \/ o = "reject" /\ TkThrow("request failed")
  /\ UNCHANGED <<build, closed, fetched, advice, bundle, prompt, logged, acct, op, req,
                 classVars, ebayData, tierVars, callVars, sinkVars, out>>

\* 2) the primary ebay_accounts row, 3) the branch on its expiry
TkAccount ==
  /\ op = "ebayToken" /\ pc = "await_account"
  /\ \E o \in {"found", "none", "reject"}, expired \in BOOLEAN, refresh \in BOOLEAN :
       /\ o # "found" => ~expired /\ ~refresh
       /\ req' = [req EXCEPT !.expired = expired, !.refresh_token = refresh]
       /\ \/ o = "none" /\ TkReturn(NotConnected("no_account"))
          \/ o = "reject" /\ TkThrow("request failed")
          \/ /\ o = "found"
             /\ IF expired
                THEN IF ~refresh THEN TkReturn(NotConnected("expired_no_refresh"))
                     ELSE TkGoto("await_refresh")
                ELSE /\ ret' = [NoRet EXCEPT !.accessToken = "stored"]
                     /\ pc' = "await_verify"
                     /\ UNCHANGED response
  /\ UNCHANGED <<build, closed, fetched, advice, bundle, prompt, logged, acct, op,
                 classVars, ebayData, tierVars, callVars, sinkVars, out>>

\* refreshEbayToken of the expired token: not inside a try; it throws when
\* the answer has no access_token or the request fails
TkRefresh ==
  /\ op = "ebayToken" /\ pc = "await_refresh"
  /\ \E o \in {"refreshed", "refused", "reject"} :
       IF o = "refreshed"
       THEN /\ ret' = [NoRet EXCEPT !.accessToken = "refreshed"]
            /\ pc' = "await_store"
            /\ UNCHANGED response
       ELSE TkThrow(IF o = "refused" THEN "refresh_failed" ELSE "request failed")
  /\ UNCHANGED <<build, closed, fetched, advice, bundle, prompt, logged, acct, op, req,
                 classVars, ebayData, tierVars, callVars, sinkVars, out>>

TkStore ==
  /\ op = "ebayToken" /\ pc = "await_store"
  /\ \E o \in DbOutcomes :
       IF o = "reject" THEN TkThrow("request failed")
       ELSE pc' = "await_verify" /\ UNCHANGED <<ret, response>>
  /\ UNCHANGED <<build, closed, fetched, advice, bundle, prompt, logged, acct, op, req,
                 classVars, ebayData, tierVars, callVars, sinkVars, out>>

\* 4) verifyAccessToken, and the branch on its answer
TkVerify ==
  /\ op = "ebayToken" /\ pc = "await_verify"
  /\ \/ TkReturn(Connected(ret.accessToken))
     \/ TkThrow("request failed")
     \/ \E st \in VerifyStatuses :
          IF st = "401" /\ req.refresh_token
          THEN TkGoto("await_refresh2")
          ELSE TkReturn(NotConnected("verify_failed_" \o st))
  /\ UNCHANGED <<build, closed, fetched, advice, bundle, prompt, logged, acct, op, req,
                 classVars, ebayData, tierVars, callVars, sinkVars, out>>

\* the refresh, the update and the second verification inside the try
TkRefresh2 ==
  /\ op = "ebayToken" /\ pc = "await_refresh2"
  /\ \E o \in {"refreshed", "refused", "reject"} :
       IF o = "refreshed"
       THEN /\ ret' = [NoRet EXCEPT !.accessToken = "refreshed"]
            /\ pc' = "await_store2"
            /\ UNCHANGED response
       ELSE TkReturn(NotConnected("refresh_failed"))
  /\ UNCHANGED <<build, closed, fetched, advice, bundle, prompt, logged, acct, op, req,
                 classVars, ebayData, tierVars, callVars, sinkVars, out>>

TkStore2 ==
  /\ op = "ebayToken" /\ pc = "await_store2"
  /\ \E o \in DbOutcomes :
       IF o = "reject" THEN TkReturn(NotConnected("refresh_failed"))
       ELSE pc' = "await_verify2" /\ UNCHANGED <<ret, response>>
  /\ UNCHANGED <<build, closed, fetched, advice, bundle, prompt, logged, acct, op, req,
                 classVars, ebayData, tierVars, callVars, sinkVars, out>>

TkVerify2 ==
  /\ op = "ebayToken" /\ pc = "await_verify2"
  /\ \E o \in {"ok", "not_ok", "reject"} :
       \/ o = "ok" /\ TkReturn(Connected(ret.accessToken))
       \/ o = "not_ok" /\ TkReturn(NotConnected("verify_failed_after_refresh"))
       \/ o = "reject" /\ TkReturn(NotConnected("refresh_failed"))
  /\ UNCHANGED <<build, closed, fetched, advice, bundle, prompt, logged, acct, op, req,
                 classVars, ebayData, tierVars, callVars, sinkVars, out>>

\* ------------------------------------------------------ the agents' pipeline
\* classifierAgent -> dataFetchAgent -> riskAgent, profitProtectionAgent ->
\* reasoningAgent -> writerAgent's prompt, each fed what its parameters name.

\* `${value}` in a template literal
Render(v) == IF v.defined THEN v.text ELSE <<"undefined">>

\* value || ''
OrEmpty(v) == IF Truthy(v) THEN v.text ELSE << >>

\* fields of the order resource as the marketplace may answer them
OrderIdValues == {JsUndefined, Str(<<"12-34567-89012">>)}
StatusValues == {JsUndefined, Str(<<"NOT_STARTED">>), Str(<<"IN_PROGRESS">>), Str(<<"FULFILLED">>)}
ItemValues == [title : {JsUndefined, Str(<<"Blue Mug">>)}, qty : {JsUndefined, Str(<<"1">>)}]
\* fetchOrderAndTracking maps every fulfillment field through || ''
TrackingValues == [carrier : {Str(<< >>), Str(<<"UPS">>)},
                   trackingNumber : {Str(<< >>), Str(<<"1Z999">>)}]

FetchedOrders ==
  [order : [present : {TRUE}, orderId : OrderIdValues, status : StatusValues,
            items : SeqsUpTo(ItemValues, MaxItems)],
   tracking : SeqsUpTo(TrackingValues, MaxTracking)]

\* /SHIPPED|FULFILLED/i on the status values above
ShippedStatuses == {<<"FULFILLED">>}

classifierAgent(m, hasOrderId) ==
  LET c == classifyIntent(patterns_agent, m)
      needsOrder == c.intent \in OrderIntents
  IN  [intent |-> c.intent, confidence |-> c.confidence, risk |-> c.risk,
       orderId |-> hasOrderId,
       needs |-> [order |-> needsOrder, tracking |-> needsOrder /\ c.intent = "tracking"],
       missing |-> IF needsOrder /\ ~hasOrderId THEN <<"order_id">> ELSE << >>]

\* what the awaited dataFetchAgent call can give: its result, or an exception
DataFetchResults(needsOrder, hasOrderId) ==
  IF ~needsOrder THEN {[threw |-> FALSE, out |-> NoOut, fetched |-> NoFetched]}
  ELSE IF ~hasOrderId
  THEN {[threw |-> FALSE, out |-> [NoOut EXCEPT !.ok = FALSE, !.missing = {"order_id"}],
         fetched |-> NoFetched]}
  ELSE {[threw |-> TRUE, out |-> NoOut, fetched |-> NoFetched],
        [threw |-> FALSE, out |-> [NoOut EXCEPT !.ok = FALSE, !.missing = {"ebay_oauth"}],
         fetched |-> NoFetched],
        [threw |-> FALSE, out |-> [NoOut EXCEPT !.ok = FALSE, !.fetched = {"error"}],
         fetched |-> NoFetched]}
       \cup {[threw |-> FALSE, out |-> [NoOut EXCEPT !.fetched = {"order", "tracking"}],
               fetched |-> f] : f \in FetchedOrders}

riskAgent(i, r) ==
  <<"Never suggest off-eBay communication",
    "Never invent tracking/order details",
    "Do not admit fault or liability">>
  \o (IF r = "high" THEN <<"Stay calm and factual; do not escalate",
                            "If needed, suggest eBay Resolution Center">>
      ELSE << >>)
  \o (IF i = "fraud_claim" THEN <<"Avoid accusing the buyer; offer a resolution path">>
      ELSE << >>)

\* orderStatus && /SHIPPED|FULFILLED/i.test(orderStatus)
AlreadyShipped_AnyStatus(f) == Truthy(f.order.status)

AlreadyShipped(f) == Truthy(f.order.status) /\ f.order.status.text \in ShippedStatuses

profitProtectionAgent(i, f) ==
  LET hasTracking == \E k \in 1..Len(f.tracking) : Truthy(f.tracking[k].trackingNumber)
  IN  (IF i = "tracking"
       THEN IF hasTracking
            THEN <<"Confirm shipment and provide carrier + tracking if present",
                   "Set expectations on delivery window">>
            ELSE <<"State we are checking shipment status; avoid promising dates">>
       ELSE << >>)
      \o (IF i \in {"refund", "return"}
          THEN <<"Do not promise refund until return process is followed",
                 "Refer to return policy / official eBay return flow">>
          ELSE << >>)
      \o (IF i = "cancellation"
          THEN IF AlreadyShipped(f)
               THEN <<"Explain order may already be dispatched; offer return options">>
               ELSE <<"If not shipped, confirm cancellation steps">>
          ELSE << >>)

\* items.map(i => `${i.qty}x ${i.title}`).join('; ')
RECURSIVE ItemsText(_)
ItemsText(items) ==
  IF items = << >> THEN << >>
  ELSE Render(Head(items).qty) \o <<"x ">> \o Render(Head(items).title)
       \o (IF Tail(items) = << >> THEN << >> ELSE <<"; ">> \o ItemsText(Tail(items)))

FactLine(label, text) == [label |-> label, text |-> text]

OrderQuestion ==
  "Could you please confirm your eBay order number so I can check the tracking/status?"

ConnectQuestion == "Seller needs to connect eBay account to fetch live order/tracking data."

reasoningAgent(classifier, dataFetch, riskConstraints, profitGuidance) ==
  LET o == dataFetch.fetched.order
      tr == dataFetch.fetched.tracking
  IN  [facts |->
         (IF o.present
          THEN <<FactLine("Order ID", Render(o.orderId))>>
               \o (IF Truthy(o.status)
                   THEN <<FactLine("Order status", Render(o.status))>> ELSE << >>)
               \o (IF Len(o.items) > 0
                   THEN <<FactLine("Items", ItemsText(o.items))>> ELSE << >>)
          ELSE << >>)
         \o (IF Len(tr) > 0 /\ (Truthy(tr[1].carrier) \/ Truthy(tr[1].trackingNumber))
             THEN <<FactLine("Tracking",
                             Trim(OrEmpty(tr[1].carrier) \o <<" ">>
                                  \o OrEmpty(tr[1].trackingNumber)))>>
             ELSE << >>),
       questions |->
         (IF \E k \in 1..Len(classifier.missing) : classifier.missing[k] = "order_id"
          THEN <<OrderQuestion>> ELSE << >>)
         \o (IF "ebay_oauth" \in dataFetch.out.missing THEN <<ConnectQuestion>> ELSE << >>),
       constraints |-> riskConstraints \o profitGuidance]

\* the FACTS, CONSTRAINTS and IF INFO IS MISSING sections of writerAgent's prompt
userPrompt(reasoning) ==
  [facts |-> IF reasoning.facts = << >> THEN <<FactLine("(none)", << >>)>>
             ELSE reasoning.facts,
   constraints |-> reasoning.constraints,
   missing |-> <<"Ask 1 short clarifying question, do not guess.">>]

InitAgents ==
  /\ build = "p001" /\ usage = NoRow
  /\ op = "agents" /\ pc = "classifier"
  /\ \E m \in ClassifierInputs, hasOrderId \in BOOLEAN :
       req = [NoReq EXCEPT !.present = (m # {}), !.long = (m # {}), !.phrases = m,
                           !.orderId = hasOrderId, !.classifier = "agent"]
  /\ intent = "" /\ confidence = 0 /\ risk = ""
  /\ ebayData = NoData
  /\ reply = JsUndefined /\ model = "" /\ tokens = 0 /\ cost = 0 /\ route = ""
  /\ issued = << >> /\ inflight = {} /\ attempts = << >>
  /\ ex = NoRow /\ reply_log = << >> /\ last_active = FALSE
  /\ out = NoOut /\ response = NoResponse
  /\ logged = << >> /\ acct = [p \in Procs |-> NoAcct]
  /\ closed = FALSE /\ NoAgents

AgClassifier ==
  /\ op = "agents" /\ pc = "classifier"
  /\ LET c == classifierAgent(req.phrases, req.orderId)
     IN  /\ intent' = c.intent
         /\ confidence' = c.confidence
         /\ risk' = c.risk
         /\ req' = [req EXCEPT !.needs_order = c.needs.order]
  /\ pc' = "data_fetch"
  /\ UNCHANGED <<build, closed, agentVars, logged, acct, op, ebayData, tierVars, callVars,
                 sinkVars, out, response>>

AgDataFetch ==
  /\ op = "agents" /\ pc = "data_fetch"
  /\ \E r \in DataFetchResults(req.needs_order, req.orderId) :
       IF r.threw
       THEN /\ response' = Threw
            /\ pc' = "done"
            /\ UNCHANGED <<out, fetched>>
       ELSE /\ out' = r.out
            /\ fetched' = r.fetched
            /\ pc' = "advice"
            /\ UNCHANGED response
  /\ UNCHANGED <<build, closed, advice, bundle, prompt, ret, logged, acct, op, req, classVars,
                 ebayData, tierVars, callVars, sinkVars>>

AgAdvice ==
  /\ op = "agents" /\ pc = "advice"
  /\ advice' = [constraints |-> riskAgent(intent, risk),
                guidance |-> profitProtectionAgent(intent, fetched)]
  /\ pc' = "reasoning"
  /\ UNCHANGED <<build, closed, fetched, bundle, prompt, ret, logged, acct, op, req, classVars,
                 ebayData, tierVars, callVars, sinkVars, out, response>>

AgReasoning ==
  /\ op = "agents" /\ pc = "reasoning"
  /\ bundle' = reasoningAgent(classifierAgent(req.phrases, req.orderId),
                              [out |-> out, fetched |-> fetched],
                              advice.constraints, advice.guidance)
  /\ pc' = "writer"
  /\ UNCHANGED <<build, closed, fetched, advice, prompt, ret, logged, acct, op, req, classVars,
                 ebayData, tierVars, callVars, sinkVars, out, response>>

AgWriterPrompt ==
  /\ op = "agents" /\ pc = "writer"
  /\ prompt' = userPrompt(bundle)
  /\ pc' = "done"
  /\ UNCHANGED <<build, closed, fetched, advice, bundle, ret, logged, acct, op, req, classVars,
                 ebayData, tierVars, callVars, sinkVars, out, response>>

NextAgents == AgClassifier \/ AgDataFetch \/ AgAdvice \/ AgReasoning \/ AgWriterPrompt

SpecAgents == InitAgents /\ [][NextAgents]_vars

\* ---------------------------------------------- safetyCheckAgent on its own
FilterFragments ==
  {<<"c", "a", "l", "l", " ", "m">>,
   <<"e">>,
   <<"w", "h", "a", "t", "s", "a", "p", "p">>,
   <<"g", "u", "a", "r", "a", "n", "t", "e", "e">>,
   <<"d">>,
   <<"o", "u", "r", " ", "m", "i", "s", "t", "a", "k", "e">>,
   <<" ">>,
   <<"t", "h", "a", "n", "k", "s">>,
   <<"i", "t", "'", "s", " ", "o", "u", "r", " ", "f", "a", "u", "l", "t">>}

FilterInputs == {Flatten(ws) : ws \in SeqsUpTo(FilterFragments, MaxFragments)}

InitFilter ==
  /\ build = "p001" /\ usage = NoRow
  /\ op = "safetyCheckAgent" /\ pc = "idle"
  /\ \E t \in FilterInputs : req = [NoReq EXCEPT !.draft = t]
  /\ intent = "" /\ confidence = 0 /\ risk = ""
  /\ ebayData = NoData
  /\ reply = JsUndefined /\ model = "" /\ tokens = 0 /\ cost = 0 /\ route = ""
  /\ issued = << >> /\ inflight = {} /\ attempts = << >>
  /\ ex = NoRow /\ reply_log = << >> /\ last_active = FALSE
  /\ out = NoOut /\ response = NoResponse
  /\ logged = << >> /\ acct = [p \in Procs |-> NoAcct]
  /\ closed = FALSE /\ NoAgents

SfCall ==
  /\ op = "safetyCheckAgent" /\ pc = "idle"
  /\ reply' = Str(safetyCheckAgent(req.draft))
  /\ response' = [NoResponse EXCEPT !.status = "returned",
                                    !.reply = Str(safetyCheckAgent(req.draft))]
  /\ pc' = "done"
  /\ UNCHANGED <<build, closed, agentVars, logged, acct, op, req, classVars, ebayData,
                 model, tokens, cost, route, callVars, sinkVars, out>>

NextFilter == SfCall

SpecFilter == InitFilter /\ [][NextFilter]_vars

\* ------------------------------------------------ classifyIntent on its own
\* The three copies of classifyIntent (the two builds of routes/reply.js and
\* agents/classifierAgent.js) differ only in their pattern tables.
Classifiers == {"p000", "p001", "agent"}

classifierTable(c) == IF c = "agent" THEN patterns_agent ELSE patterns(c)

InitClassify ==
  /\ build \in Builds /\ usage = NoRow
  /\ op = "classifyIntent" /\ pc = "idle"
  /\ \E c \in Classifiers, m \in ClassifierInputs :
       req = [NoReq EXCEPT !.present = (m # {}), !.long = (m # {}),
                           !.phrases = m, !.classifier = c]
  /\ intent = "" /\ confidence = 0 /\ risk = ""
  /\ ebayData = NoData
  /\ reply = JsUndefined /\ model = "" /\ tokens = 0 /\ cost = 0 /\ route = ""
  /\ issued = << >> /\ inflight = {} /\ attempts = << >>
  /\ ex = NoRow /\ reply_log = << >> /\ last_active = FALSE
  /\ out = NoOut /\ response = NoResponse
  /\ logged = << >> /\ acct = [p \in Procs |-> NoAcct]
  /\ closed = FALSE /\ NoAgents

ClassifyCall ==
  /\ op = "classifyIntent" /\ pc = "idle"
  /\ LET c == classifyIntent(classifierTable(req.classifier), req.phrases)
     IN  /\ intent' = c.intent
         /\ confidence' = c.confidence
         /\ risk' = c.risk
  /\ pc' = "done"
  /\ UNCHANGED <<build, closed, agentVars, logged, acct, op, req, ebayData, tierVars, callVars, sinkVars,
                 out, response>>

NextClassify == ClassifyCall

SpecClassify == InitClassify /\ [][NextClassify]_vars

\* ------------------------------------- concurrent requests of one account
\* Several generate requests of the same account, each past its tier chain,
\* run the accounting part of the handler against the one usage row.
TierResults ==
  {[route |-> "rule", tokens |-> 0, cost |-> 0]}
  \cup {[route |-> "mini", tokens |-> u.p + u.c, cost |-> OpenAICost(u)] : u \in UsageReports}
  \cup {[route |-> "large", tokens |-> u.p + u.c, cost |-> AnthropicCost(u)] : u \in UsageReports}

\* the request has its reply, route, tokens and cost and issues the select
AcctStart(p) ==
  /\ acct[p].pc = "idle"
  /\ \E r \in TierResults :
       acct' = [acct EXCEPT ![p].route = r.route, ![p].tokens = r.tokens,
                            ![p].cost = r.cost, ![p].pc = "usage_select"]
  /\ UNCHANGED <<build, closed, agentVars, op, pc, req, classVars, ebayData, tierVars, callVars,
                 sinkVars, out, response, logged>>

AcctCatch(p) == [acct EXCEPT ![p].status = "500", ![p].pc = "done"]

AcctSelect(p) ==
  /\ acct[p].pc = "usage_select"
  /\ \E o \in DbOutcomes :
       acct' = IF o = "reject" THEN AcctCatch(p)
               ELSE [acct EXCEPT ![p].ex = IF o = "ok" THEN usage ELSE NoRow,
                                 ![p].pc = "usage_write"]
  /\ UNCHANGED <<build, closed, agentVars, op, pc, req, classVars, ebayData, tierVars, callVars,
                 sinkVars, out, response, logged>>

AcctWrite(p) ==
  /\ acct[p].pc = "usage_write"
  /\ \E o \in DbOutcomes :
       IF o = "reject" THEN acct' = AcctCatch(p) /\ UNCHANGED usage
       ELSE /\ usage' = IF o = "error" THEN usage
                        ELSE IF acct[p].ex.exists
                        THEN UpdatedRowOf(acct[p].ex, acct[p].route, acct[p].tokens,
                                          acct[p].cost)
                        ELSE IF usage.exists THEN usage
                        ELSE InsertedRowOf(acct[p].route, acct[p].tokens, acct[p].cost)
            /\ acct' = [acct EXCEPT ![p].pc = "reply_log"]
  /\ UNCHANGED <<build, closed, agentVars, op, pc, req, classVars, ebayData, tierVars, callVars,
                 ex, reply_log, last_active, out, response, logged>>

\* reply_log insert, last_active update and res.json
AcctRespond(p) ==
  /\ acct[p].pc = "reply_log"
  /\ \E o \in DbOutcomes :
       acct' = IF o = "reject" THEN AcctCatch(p)
               ELSE [acct EXCEPT ![p].status = "200", ![p].pc = "done"]
  /\ UNCHANGED <<build, closed, agentVars, op, pc, req, classVars, ebayData, tierVars, callVars,
                 sinkVars, out, response, logged>>

NextConc ==
  \E p \in Procs : AcctStart(p) \/ AcctSelect(p) \/ AcctWrite(p) \/ AcctRespond(p)

SpecConc == Init /\ [][NextConc]_vars

\* --------------------------------------------------------- POST /usage/track
\* The extension reports one reply: { route, model, intent, tokens, cost_usd }.
\* The handler has no try/catch: a rejected await leaves the request unanswered.
\* route values of the body; "" is an absent route
TrackRoutes == {"", "rule", "mini", "large", "modify"}

\* no response is ever sent for this request
TrReject ==
  /\ response' = [NoResponse EXCEPT !.error = "unhandled rejection"]
  /\ pc' = "done"

\* the body is read; req.usage_before keeps the stored row as the call finds it
TrReceive ==
  /\ pc = "idle"
  /\ \E rt \in TrackRoutes, r \in TierResults :
       /\ route' = rt
       /\ tokens' = r.tokens
       /\ cost' = r.cost
  /\ req' = [NoReq EXCEPT !.present = TRUE, !.usage_before = usage]
  /\ op' = "track"
  /\ pc' = "await_rpc"
  /\ UNCHANGED <<build, closed, agentVars, logged, acct, classVars, ebayData, reply, model,
                 callVars, sinkVars, out, response>>

\* supabase.rpc('increment_usage'): no such function is defined, so the call
\* resolves with an error or rejects; the rejection is caught and the error
\* is never read.  The fallback runs in every case.
TrRpc ==
  /\ op = "track" /\ pc = "await_rpc"
  /\ \E o \in {"error", "reject"} : pc' = "usage_select"
  /\ UNCHANGED <<build, closed, agentVars, logged, acct, op, req, classVars, ebayData, tierVars,
                 callVars, sinkVars, out, response>>

TrSelect ==
  /\ op = "track" /\ pc = "usage_select"
  /\ \E o \in DbOutcomes :
       IF o = "reject" THEN TrReject /\ UNCHANGED ex
       ELSE /\ ex' = IF o = "ok" THEN usage ELSE NoRow
            /\ pc' = "usage_write"
            /\ UNCHANGED response
  /\ UNCHANGED <<build, closed, agentVars, logged, acct, op, req, classVars, ebayData, tierVars,
                 callVars, usage, reply_log, last_active, out>>

\* the same update / insert as in the generate handler, with the body's route
TrWrite ==
  /\ op = "track" /\ pc = "usage_write"
  /\ \E o \in DbOutcomes :
       IF o = "reject" THEN TrReject /\ UNCHANGED usage
       ELSE /\ usage' = IF o = "error" THEN usage
                        ELSE IF ex.exists THEN UpdatedRow
                        ELSE IF usage.exists THEN usage
                        ELSE InsertedRow
            /\ pc' = "reply_log"
            /\ UNCHANGED response
  /\ UNCHANGED <<build, closed, agentVars, logged, acct, op, req, classVars, ebayData, tierVars,
                 callVars, ex, reply_log, last_active, out>>

\* reply_log insert, then res.json({ success: true })
TrRespond ==
  /\ op = "track" /\ pc = "reply_log"
  /\ \E o \in DbOutcomes :
       IF o = "reject" THEN TrReject /\ UNCHANGED reply_log
       ELSE /\ reply_log' = IF o = "ok"
                            THEN Append(reply_log,
                                        [intent |-> "general",
                                         route |-> IF route = "" THEN "rule" ELSE route,
                                         model |-> "unknown", tokens_used |-> tokens,
                                         cost_usd |-> cost])
                            ELSE reply_log
            /\ response' = [NoResponse EXCEPT !.status = "200"]
            /\ pc' = "done"
  /\ UNCHANGED <<build, closed, agentVars, logged, acct, op, req, classVars, ebayData, tierVars,
                 callVars, ex, usage, last_active, out>>

\* ------------------------------------------------------------ specification
Next ==
  \/ GenReceive \/ GenTones \/ GenEbayAccount \/ GenEbayOrders \/ GenEbayTracking
  \/ GenRuleTier \/ GenLowIssue \/ GenLowSkip \/ GenLowDone
  \/ GenHighIssue \/ GenHighSkip \/ GenHighDone
  \/ GenUsageSelect \/ GenUsageWrite \/ GenReplyLog \/ GenRespond
  \/ ModReceive \/ ModLowDone \/ ModHighDone
  \/ WaCall \/ WaLowDone \/ WaHighDone
  \/ DfCall \/ DfToken \/ DfOrder \/ DfTracking
  \/ TkCall \/ TkUser \/ TkAccount \/ TkRefresh \/ TkStore \/ TkVerify
  \/ TkRefresh2 \/ TkStore2 \/ TkVerify2
  \/ TrReceive \/ TrRpc \/ TrSelect \/ TrWrite \/ TrRespond

Spec == Init /\ [][Next]_vars

\* ---------------------------------------------- a caller that goes away
\* The caller's connection closes, or the caller's own deadline passes, while
\* the generate handler is running.  The handler registers no 'close' listener
\* and sets no timeout, so the event changes nothing the handler reads.
Disconnect ==
  /\ op = "generate" /\ pc \notin {"idle", "done"}
  /\ ~closed
  /\ closed' = TRUE
  /\ UNCHANGED <<build, op, pc, req, classVars, ebayData, tierVars, callVars,
                 sinkVars, out, response, logged, acct, agentVars>>

NextCancel ==
  \/ GenReceive \/ GenTones \/ GenEbayAccount \/ GenEbayOrders \/ GenEbayTracking
  \/ GenRuleTier \/ GenLowIssue \/ GenLowSkip \/ GenLowDone
  \/ GenHighIssue \/ GenHighSkip \/ GenHighDone
  \/ GenUsageSelect \/ GenUsageWrite \/ GenReplyLog \/ GenRespond
  \/ Disconnect

SpecCancel == Init /\ [][NextCancel]_vars

\* ----------------------------------------------------------------- claims
Range(s) == {s[i] : i \in 1..Len(s)}
Occurrences(s, x) == Cardinality({i \in 1..Len(s) : s[i] = x})
ValidGenerate == op = "generate" /\ req.present /\ req.long
YieldedReply == \E i \in 1..Len(attempts) : attempts[i].result = "reply"
TierRank(t) == IF t = "rule" THEN 1 ELSE IF t = "openai" THEN 2 ELSE 3

\* C1: in POST /reply/generate the rule tier never produces the reply when
\* risk is not low, confidence is below 80, modify_instructions is present,
\* or the classified intent is one that requires order facts.
C1_RuleTierOnlyWithoutFactNeeds ==
  (op = "generate" /\ route = "rule") =>
     /\ risk = "low"
     /\ confidence >= 80
     /\ ~req.modify_instructions
     /\ intent \notin OrderIntents

\* C2: a request classified high risk never invokes the rule tier nor the
\* low-cost backend; the high-cost backend is the only tier attempted.
C2_HighRiskOnlyHighCost ==
  (op \in {"generate", "writerAgent"} /\ risk = "high") =>
     /\ \A i \in 1..Len(issued) : issued[i] = "anthropic"
     /\ \A i \in 1..Len(attempts) : attempts[i].tier = "anthropic"
     /\ response.status \in {"200", "returned"} => issued = <<"anthropic">>

C2_Witness ==
  /\ op = "generate" /\ risk = "high"
  /\ issued = <<"anthropic">>
  /\ response.status = "200"

\* C3: when risk is not high the tiers are tried in the order rule, low-cost,
\* high-cost and the chain stops at the first tier that yields a reply: the
\* low-cost backend is called only if the rule tier gave no reply, the
\* high-cost backend only if neither the rule tier nor the low-cost tier did.
C3_TierOrderStopsAtFirstReply ==
  (op = "generate" /\ risk # "high") =>
     /\ issued \in {<< >>, <<"openai">>, <<"openai", "anthropic">>}
     /\ \A i, j \in 1..Len(attempts) :
          i < j => TierRank(attempts[i].tier) < TierRank(attempts[j].tier)
     /\ \A i \in 1..Len(attempts) :
          attempts[i].result = "reply" =>
            /\ i = Len(attempts)
            /\ inflight = {}
            /\ \A k \in 1..Len(issued) : TierRank(issued[k]) <= TierRank(attempts[i].tier)
     /\ "anthropic" \in Range(issued) =>
          \E i \in 1..Len(attempts) :
            attempts[i].tier = "openai" /\ attempts[i].result \in {"error", "empty"}

C3_Witness ==
  /\ op = "generate" /\ risk # "high"
  /\ issued = <<"openai", "anthropic">>
  /\ Len(attempts) = 3
  /\ attempts[1] = Attempt("rule", "no_template")
  /\ attempts[3] = Attempt("anthropic", "reply")
  /\ response.status = "200"

\* C4: every reply returned by a successful generate request is the output of
\* the safety filter applied to the text the tier produced.
C4_ReplyPassedSafetyFilter ==
  (op = "generate" /\ response.status = "200") =>
     response.reply = Str(safetyCheckAgent(reply.text))

\* C5: a validated generate request ends in an error response only if every
\* tier of its chain failed; whenever some tier produced a reply the caller
\* receives the success response carrying that reply.
C5_ErrorOnlyWhenAllTiersFailed ==
  (ValidGenerate /\ pc = "done") =>
     /\ response.status # "200" =>
          /\ ~YieldedReply
          /\ Len(attempts) > 0
          /\ attempts[Len(attempts)] = Attempt("anthropic", "error")
     /\ YieldedReply => response = SuccessResponse(reply, route)

\* C6: a failed low-cost call is not surfaced to the caller: the high-cost
\* backend is attempted next, and if it succeeds the caller receives a success
\* response whose route is the high-cost tier.
C6_LowFailureFallsBackToHigh ==
  (op = "generate" /\ Attempt("openai", "error") \in Range(attempts)) =>
     /\ pc # "high" => "anthropic" \in Range(issued)
     /\ (pc = "done" /\ Attempt("anthropic", "error") \notin Range(attempts)) =>
          (response.status = "200" /\ response.route = "large")

\* C7: a failure of the usage-accounting sink after a reply has been computed
\* never prevents that reply from being returned in a success response.
C7_SinkFailureNeverWithholdsReply ==
  (op = "generate" /\ pc = "done" /\ route # "") =>
     (Attempt("anthropic", "error") \in Range(attempts)
        \/ response = SuccessResponse(reply, route))

\* C8: any Fact Provider failure is reported as a non-ok result and the
\* request proceeds without facts; it never raises an exception.
C8_FactFailureIsNonOkResult ==
  /\ (op = "dataFetchAgent" /\ pc = "done") => response.status = "returned"
  /\ (op = "generate" /\ pc = "route" /\ ~ebayData.present) => response.status = "none"

\* C9 as stated: the two backend calls of a request are never in flight
\* together, and the high-cost call is issued only after the low-cost call
\* has completed with a failure, or was skipped.
C9_HighOnlyAfterLowFailure ==
  /\ ~({"openai", "anthropic"} \subseteq inflight)
  /\ "anthropic" \in Range(issued) =>
       \/ "openai" \notin Range(issued)
       \/ Attempt("openai", "error") \in Range(attempts)

\* C9 amended: the two backend calls of a request are never in flight
\* together, and the high-cost call is issued only after the low-cost call
\* has completed without a reply (a failure or an empty text), or was skipped.
C9_HighOnlyAfterLowGaveNoReply ==
  /\ ~({"openai", "anthropic"} \subseteq inflight)
  /\ "anthropic" \in Range(issued) =>
       \/ "openai" \notin Range(issued)
       \/ /\ "openai" \notin inflight
          /\ \E i \in 1..Len(attempts) :
               attempts[i].tier = "openai" /\ attempts[i].result \in {"error", "empty"}

C9_Witness ==
  /\ issued = <<"openai", "anthropic">>
  /\ inflight = {"anthropic"}
  /\ Attempt("openai", "error") \in Range(attempts)

\* C10: within one generate or modify request each generation backend is
\* called at most once.
C10_EachBackendAtMostOnce ==
  op \in {"generate", "modify"} =>
    \A b \in {"openai", "anthropic"} : Occurrences(issued, b) <= 1

C10_Witness ==
  /\ op \in {"generate", "modify"}
  /\ Attempt("openai", "error") \in Range(attempts)
  /\ Attempt("anthropic", "error") \in Range(attempts)
  /\ issued = <<"openai", "anthropic">>
  /\ pc = "done"

\* C11: under any interleaving of concurrent generate requests of one account
\* on one day, no counter of the stored usage row ever decreases from one
\* stored value to the next.
C11_CountersNeverDecrease ==
  [][usage.exists =>
       /\ usage'.replies_count >= usage.replies_count
       /\ usage'.rule_count >= usage.rule_count
       /\ usage'.mini_count >= usage.mini_count
       /\ usage'.large_count >= usage.large_count
       /\ usage'.tokens_used >= usage.tokens_used]_vars

\* C12: a modify request never uses the rule tier; it calls the low-cost
\* backend first, once, and calls the high-cost backend only after the
\* low-cost call failed.
C12_ModifyLowThenHighOnFailure ==
  op = "modify" =>
    /\ \A i \in 1..Len(attempts) : attempts[i].tier # "rule"
    /\ route # "rule"
    /\ issued \in {<< >>, <<"openai">>, <<"openai", "anthropic">>}
    /\ "anthropic" \in Range(issued) =>
         /\ Len(attempts) >= 1
         /\ attempts[1] = Attempt("openai", "error")

C12_Witness ==
  /\ op = "modify" /\ pc = "done"
  /\ issued = <<"openai", "anthropic">>
  /\ response.status = "200"

\* C13: when the last applicable tier of a generate request has failed, the
\* caller receives status 500 with the fixed text of the build, whatever the
\* backends' error messages were: the response body is a function of the
\* build alone, so two runs differing only in those messages answer the same.
C13_ExhaustedResponseIsGeneric ==
  (ValidGenerate /\ pc = "done" /\ Attempt("anthropic", "error") \in Range(attempts)) =>
    /\ response.status = "500"
    /\ response.reply = JsUndefined
    /\ response.route = ""
    /\ response.error = IF build = "p000"
                         THEN "AI service unavailable. Please try again."
                         ELSE "AI service unavailable. Please try again in a moment."

C13_Witness ==
  /\ ValidGenerate /\ pc = "done"
  /\ Occurrences(attempts, Attempt("anthropic", "error")) = 1
  /\ Len(logged) = 2
  /\ logged[1] = OpenAILog(build) \o "Rate limit reached"
  /\ logged[2] = AnthropicLog(build) \o "Incorrect API key provided"
  /\ response.status = "500"

\* C14: every modify request that passed validation and has finished has
\* been answered, also when both backend calls failed.
C14_ValidModifyIsAnswered ==
  (op = "modify" /\ pc = "done" /\ req.original_reply /\ req.instructions) =>
    response.status # "none"

\* C15: a generate request without a customer_message of at least 3
\* characters, and a modify request without original_reply or instructions,
\* is answered 400 and runs no pipeline step: nothing is classified, no
\* backend is called, and usage, reply_log and last_active stay as they were.
InvalidRequest ==
  \/ op = "generate" /\ (~req.present \/ ~req.long)
  \/ op = "modify" /\ (~req.original_reply \/ ~req.instructions)

C15_InvalidRequestRunsNoPipeline ==
  /\ [](InvalidRequest =>
          /\ pc = "done"
          /\ response.status = "400"
          /\ response.reply = JsUndefined
          /\ intent = "" /\ confidence = 0 /\ risk = ""
          /\ issued = << >> /\ inflight = {} /\ attempts = << >>
          /\ reply = JsUndefined /\ route = ""
          /\ ex = NoRow /\ reply_log = << >> /\ ~last_active)
  /\ [][InvalidRequest' => (usage' = usage /\ reply_log' = reply_log)]_vars

C15_Witness ==
  /\ op = "generate" /\ req.present /\ ~req.long
  /\ pc = "done" /\ response.status = "400"

\* C16: whenever the rule tier produced the reply, tokens and cost are 0 in
\* the request, in every reply_log record of the rule route, and in the
\* usage row, whose tokens_used and cost_usd the request leaves unchanged.
C16_RuleTierIsFree ==
  /\ []((op = "generate" /\ route = "rule") =>
          /\ tokens = 0 /\ cost = 0
          /\ \A i \in 1..Len(reply_log) :
               reply_log[i].route = "rule" =>
                 reply_log[i].tokens_used = 0 /\ reply_log[i].cost_usd = 0)
  /\ [][(op = "generate" /\ route = "rule") =>
          /\ usage'.tokens_used = usage.tokens_used
          /\ usage'.cost_usd = usage.cost_usd]_vars

C16_Witness ==
  /\ op = "generate" /\ route = "rule" /\ pc = "done"
  /\ response.status = "200"
  /\ usage.replies_count = 2 /\ usage.rule_count = 2
  /\ Len(reply_log) = 1 /\ reply_log[1].route = "rule"

\* ---- claims about classifyIntent, checked under SpecClassify
Classified == op = "classifyIntent" /\ pc = "done"
TableOfRequest == classifierTable(req.classifier)
\* number of patterns of table entry i that test positive on the input
Hits(i) ==
  Cardinality({j \in 1..Len(TableOfRequest[i].regs) :
                 TableOfRequest[i].regs[j] \cap req.phrases # {}})
MaxHits ==
  CHOOSE h \in {0} \cup {Hits(i) : i \in 1..Len(TableOfRequest)} :
    \A i \in 1..Len(TableOfRequest) : Hits(i) <= h

\* C17: for every input on which no pattern of any intent tests positive,
\* the empty input included, classifyIntent returns intent general,
\* confidence 20 and risk low.
C17_NoMatchIsGeneral ==
  (Classified /\ \A i \in 1..Len(TableOfRequest) : Hits(i) = 0) =>
    intent = "general" /\ confidence = 20 /\ risk = "low"

C17_Witness ==
  /\ Classified /\ req.phrases = {"hello"}
  /\ intent = "general" /\ confidence = 20 /\ risk = "low"

\* C18: the confidence returned equals min(30*k + 20, 95), k being the
\* number of positive patterns of the returned intent (0 for general), and
\* lies between 0 and 95.
C18_ConfidenceFormula ==
  Classified =>
    LET k == IF intent = "general" THEN 0
             ELSE Hits(CHOOSE i \in 1..Len(TableOfRequest) :
                         TableOfRequest[i].intent = intent)
    IN  /\ confidence = (IF 30 * k + 20 < 95 THEN 30 * k + 20 ELSE 95)
        /\ 0 <= confidence /\ confidence <= 95

C18_Witness ==
  /\ Classified /\ intent = "return" /\ MaxHits = 3 /\ confidence = 95

\* C19: the risk returned depends only on the returned intent: high exactly
\* for legal_threat, fraud_claim and off_platform, medium exactly for return,
\* refund, damaged_item and cancellation, low for every other intent.
C19_RiskIsFunctionOfIntent ==
  Classified =>
    /\ risk \in {"high", "medium", "low"}
    /\ risk = "high" <=> intent \in {"legal_threat", "fraud_claim", "off_platform"}
    /\ risk = "medium" <=> intent \in {"return", "refund", "damaged_item", "cancellation"}

C19_Witness ==
  /\ Classified /\ req.phrases = {"whatsapp"}
  /\ intent = "off_platform" /\ risk = "high"

\* C20: classifyIntent returns the intent with the highest count of positive
\* patterns, and among several intents with that highest positive count the
\* one earliest in the table; with no positive pattern it returns general.
C20_HighestScoreEarliestWins ==
  Classified =>
    IF MaxHits = 0 THEN intent = "general"
    ELSE \E i \in 1..Len(TableOfRequest) :
           /\ TableOfRequest[i].intent = intent
           /\ Hits(i) = MaxHits
           /\ \A j \in 1..(i - 1) : Hits(j) < MaxHits

C20_Witness ==
  /\ Classified /\ req.phrases = {"lawyer", "scam"}
  /\ \E i, j \in 1..Len(TableOfRequest) :
       /\ i < j
       /\ TableOfRequest[i].intent = "legal_threat" /\ Hits(i) = 1
       /\ TableOfRequest[j].intent = "fraud_claim" /\ Hits(j) = 1
  /\ intent = "legal_threat"

\* ---- claims about the agents' pipeline, checked under SpecAgents
Assembled == op = "agents" /\ pc \in {"writer", "done"} /\ response.status # "threw"

\* C21: reasoningAgent never emits a fact line for an absent or empty field:
\* every line stands for a populated field of the fetched data and no line
\* holds the placeholder of a missing value.
C21_FactLinesOnlyForPopulatedFields ==
  Assembled =>
    \A k \in 1..Len(bundle.facts) :
      LET l == bundle.facts[k]
      IN  /\ l.text # << >>
          /\ "undefined" \notin Range(l.text)
          /\ l.label = "Order ID" => Truthy(fetched.order.orderId)
          /\ l.label = "Order status" => Truthy(fetched.order.status)
          /\ l.label = "Items" =>
               /\ Len(fetched.order.items) > 0
               /\ \A i \in 1..Len(fetched.order.items) :
                    Truthy(fetched.order.items[i].title) /\ Truthy(fetched.order.items[i].qty)
          /\ l.label = "Tracking" =>
               /\ Len(fetched.tracking) > 0
               /\ Truthy(fetched.tracking[1].carrier)
                    \/ Truthy(fetched.tracking[1].trackingNumber)

\* C25: every clarifying question of the reasoning bundle is a line of the
\* prompt writerAgent builds for the generation backend.
C25_QuestionsReachTheWriter ==
  (op = "agents" /\ pc = "done" /\ response.status # "threw") =>
    \A k \in 1..Len(bundle.questions) :
      \/ bundle.questions[k] \in Range(prompt.constraints) \cup Range(prompt.missing)
      \/ \E i \in 1..Len(prompt.facts) : prompt.facts[i].label = bundle.questions[k]

\* C26: the bundle holds the order-number question exactly when the intent
\* needs order data and no order id was extracted, the connect-account
\* question exactly when the fetch reported the account as not linked, and
\* no other question.
C26_QuestionsExactlyWhenDataIncomplete ==
  Assembled =>
    bundle.questions =
      (IF /\ intent \in {"tracking", "refund", "return", "damaged_item", "cancellation"}
          /\ ~req.orderId
       THEN <<"Could you please confirm your eBay order number so I can check the tracking/status?">>
       ELSE << >>)
      \o (IF "ebay_oauth" \in out.missing
          THEN <<"Seller needs to connect eBay account to fetch live order/tracking data.">>
          ELSE << >>)

C26_Witness ==
  /\ Assembled /\ pc = "done" /\ intent = "refund" /\ req.orderId
  /\ out.missing = {"ebay_oauth"}
  /\ bundle.questions = <<ConnectQuestion>>

\* C27: for intent cancellation profitProtectionAgent emits exactly one
\* guidance line, the already-dispatched one iff an order status was fetched
\* and says shipped or fulfilled, the confirm-cancellation one otherwise;
\* for intents other than tracking, refund, return, cancellation it emits none.
C27_CancellationGuidance ==
  (op = "agents" /\ pc \in {"reasoning", "writer", "done"} /\ response.status # "threw") =>
    /\ intent = "cancellation" =>
         advice.guidance =
           IF /\ fetched.order.present
              /\ fetched.order.status.defined
              /\ fetched.order.status.text \in {<<"FULFILLED">>, <<"SHIPPED">>}
           THEN <<"Explain order may already be dispatched; offer return options">>
           ELSE <<"If not shipped, confirm cancellation steps">>
    /\ intent \notin {"tracking", "refund", "return", "cancellation"} =>
         advice.guidance = << >>

C27_Witness ==
  /\ op = "agents" /\ pc = "done" /\ intent = "cancellation"
  /\ fetched.order.present /\ fetched.order.status = Str(<<"FULFILLED">>)
  /\ advice.guidance = <<"Explain order may already be dispatched; offer return options">>

\* ---- claim about the safety filter, checked under SpecFilter
ContainsPhrase(text, rule) ==
  \E i \in 1..Len(text), a \in 1..Len(rule.alts) :
    MatchesAt(text, i, rule.alts[a], rule.bounded)

\* C22: the safety filter is idempotent, and its output holds no recognized
\* off-platform, fault-admission or absolute-guarantee phrase, for every
\* input text.
C22_FilterIdempotentAndClean ==
  (op = "safetyCheckAgent" /\ pc = "done") =>
    /\ safetyCheckAgent(reply.text) = reply.text
    /\ ~ContainsPhrase(reply.text, OffPlatformRule)
    /\ ~ContainsPhrase(reply.text, FaultRule)
    /\ ~ContainsPhrase(reply.text, GuaranteeRule)

\* C28: getValidEbayTokenByLicenseKey always completes by returning either
\* {connected: false, reason} or {connected: true, accessToken}, whatever
\* the lookups, the refresh and the verification give; a failed refresh of
\* an expired token gives a connected: false result, not an exception.
\* (Runs in which the database client or fetch itself rejected are left out.)
C28_TokenHelperAlwaysReturns ==
  (op = "ebayToken" /\ pc = "done" /\ response.error # "request failed") =>
    /\ response.status = "returned"
    /\ IF ret.connected THEN ret.accessToken # "" /\ ret.reason = ""
       ELSE ret.reason # ""

\* C23: within one generate request the stages run in order. While the
\* order-fact fetch is still running no generation tier has been attempted and
\* no backend call issued, the fetched facts change only before the first tier,
\* and a 200 response is sent only after a tier attempt has completed, with no
\* backend call outstanding, and carries the text the tier chain left.
FetchStage == {"await_tones", "await_account", "await_orders", "await_tracking"}

C24_NoAttemptAfterDisconnect ==
  [][closed =>
       /\ issued' = issued
       /\ (attempts' # attempts => inflight # {})]_vars

\* C29: a POST /usage/track call that answers success has raised the
\* caller's replies_count for today by exactly 1 and tokens_used by exactly
\* the reported tokens.
C29_TrackCountsOnce ==
  (op = "track" /\ pc = "done" /\ response.status = "200") =>
     /\ usage.exists
     /\ usage.replies_count = req.usage_before.replies_count + 1
     /\ usage.tokens_used = req.usage_before.tokens_used + tokens

\* C30: every daily usage row satisfies
\* replies_count = rule_count + mini_count + large_count, whatever generate
\* requests and /usage/track calls, with any route value, have run.
C30_RepliesAreSumOfRoutes ==
  usage.exists =>
     usage.replies_count = usage.rule_count + usage.mini_count + usage.large_count

====
